---- MODULE Spec2Model ----
(***************************************************************************)
(* Notification dispatch pipeline of the growspace backend:                *)
(* EmailController.processAndSendNotifications and its helpers             *)
(* (getEmailTemplate, getTaskContext, updateNotificationStatus), over a    *)
(* record store with the tables notifications, email_templates and the     *)
(* task tables, and an outbound send capability (EmailUseCases.sendEmail). *)
(* Time is counted in whole hours since an epoch.                          *)
(***************************************************************************)
EXTENDS Integers, Sequences, FiniteSets, TLC

\* ------------------------------------------------------------------ bounds
\* number of rows of the notifications table
MaxNotifs == 2
\* invocations of the batch trigger in one behaviour
MaxRuns == 2
\* hours the clock may advance in one behaviour
MaxTicks == 1
\* store operations that may fail in one behaviour
MaxFaults == 2
\* pieces (texts, placeholders, {{#if}} blocks) of a rendered template
MaxSegments == 3
\* pieces of a template string the conditional loop is run on
MaxTokens == 4

\* ------------------------------------------------------- program constants
\* .limit(50)
FetchLimit == 50
\* fiveDaysMs = 5 * 24 * 60 * 60 * 1000, in hours
FiveDays == 120
\* 1000 * 60 * 60 * 24, in hours
DayLen == 24
\* setTimeout(resolve, 600)
DelayMs == 600
\* offset of America/Sao_Paulo from UTC is -3 hours
BrazilOffset == 3

\* ------------------------------------------------------------------ domains
Ids == 1..MaxNotifs
Procs == {"p1", "p2"}
\* clock value at the start of a behaviour
Epoch0 == FiveDays + 1
\* scheduled_at values: five days old, four days 23 hours old, four hours ahead
SchedTimes == {Epoch0 - FiveDays, Epoch0 - FiveDays + 1, Epoch0 + BrazilOffset + 1}
TemplateKeys == {"task_reminder", "task_overdue"}
\* offsets (hours from UTC) of the zone the server process runs in
SystemOffsets == {0, 0 - BrazilOffset}

None == <<>>
Some(x) == <<x>>

Max(a, b) == IF a >= b THEN a ELSE b
Min(a, b) == IF a <= b THEN a ELSE b

\* rows of the task tables a notification can be linked to
NoTask == [table |-> "none", completed |-> FALSE, status |-> "pending",
           completed_at |-> None, log |-> {}]
TodoDone == [table |-> "todos", completed |-> TRUE, status |-> "completed",
             completed_at |-> Some(1), log |-> {}]
TodoOpen == [table |-> "todos", completed |-> FALSE, status |-> "pending",
             completed_at |-> None, log |-> {}]
UserTaskLogged == [table |-> "user_tasks", completed |-> FALSE, status |-> "pending",
                   completed_at |-> None, log |-> {2, 3}]
TaskRows == {NoTask, TodoDone, TodoOpen, UserTaskLogged}
\* the task rows and the template tables the dispatch loop is run against
LoopTaskRows == {NoTask, TodoDone, UserTaskLogged}
LoopTemplates == {TemplateKeys, {"task_reminder"}}

VARIABLES now, sysOffset, notifications, email_templates, tasks, inv, sends, runs, faults,
          render, resolve

vars == <<now, sysOffset, notifications, email_templates, tasks, inv, sends, runs, faults,
          render, resolve>>

\* ------------------------------------------------------------- date utils
\* tz.fromZonedTime(new Date(), 'America/Sao_Paulo'): the wall clock of the
\* system zone read as a Sao Paulo wall clock
nowUTC(t, off) == t + off + BrazilOffset

\* ------------------------------------------------------------ the helpers
\* .eq('template_key', k).eq('active', true).single(): null on error or no row
getEmailTemplate(templates, key, storeOk) ==
  IF storeOk /\ key \in templates THEN Some(key) ELSE None

\* .order('completed_at', { ascending: true }).limit(1): the earliest record
earliest(S) == CHOOSE x \in S : \A y \in S : x <= y

\* mutant of getTaskContext: the completions log never consulted
getTaskContextNoLog(task, lookupErr) ==
  LET open == [isCompleted |-> FALSE, completedAt |-> None]
      direct == task.completed = TRUE \/ task.status = "completed"
  IN IF task.table \in {"todos", "user_tasks"} /\ lookupErr # "task"
     THEN IF task.table = "todos" \/ direct
          THEN [isCompleted |-> direct, completedAt |-> task.completed_at]
          ELSE open
     ELSE open

\* mutant of getTaskContext: a failed lookup taken for a completed task
getTaskContextFailClosed(task, lookupErr) ==
  IF lookupErr # "none"
  THEN [isCompleted |-> TRUE, completedAt |-> None]
  ELSE [isCompleted |-> task.completed = TRUE \/ task.status = "completed" \/ task.log # {},
        completedAt |-> IF task.log # {} THEN Some(earliest(task.log)) ELSE task.completed_at]

\* completion state of the linked task; lookupErr names the lookup that fails
getTaskContext(task, lookupErr) ==
  LET open == [isCompleted |-> FALSE, completedAt |-> None]
      direct == task.completed = TRUE \/ task.status = "completed"
  IN CASE task.table = "none" -> open
       [] task.table = "todos" ->
            IF lookupErr = "task" THEN open
            ELSE [isCompleted |-> direct, completedAt |-> task.completed_at]
       [] task.table = "user_tasks" ->
            IF lookupErr = "task" THEN open
            ELSE IF direct
                 THEN [isCompleted |-> TRUE, completedAt |-> task.completed_at]
                 ELSE IF lookupErr = "log" THEN open
                 ELSE IF task.log # {}
                      THEN [isCompleted |-> TRUE, completedAt |-> Some(earliest(task.log))]
                      ELSE open
       [] OTHER -> open

\* mutant of isOld: exactly five days does not count as old
isOldStrict(t, scheduled_at) == (t - scheduled_at) > FiveDays

\* the lookups getTaskContext makes for a task: its row, then the completion log
LookupsMade(task) ==
  CASE task.table = "todos" -> {"task"}
    [] task.table = "user_tasks" ->
         IF task.completed = TRUE \/ task.status = "completed" THEN {"task"}
         ELSE {"task", "log"}
    [] OTHER -> {}

\* (Date.now() - scheduledAtMs) >= fiveDaysMs
isOld(t, scheduled_at) == (t - scheduled_at) >= FiveDays

\* reminder five or more days late with the task still open uses the overdue template
effectiveTemplateOf(template_key, old, isCompleted) ==
  IF template_key = "task_reminder" /\ old /\ ~isCompleted
  THEN "task_overdue" ELSE template_key

\* Math.max(1, Math.floor((Date.now() - scheduledAtMs) / day))
daysOverdue(effective, t, scheduled_at) ==
  IF effective = "task_overdue"
  THEN Some(Max(1, (t - scheduled_at) \div DayLen)) ELSE None

\* updateData of updateNotificationStatus: the columns the update sets
updateData(status, sentAt, errorMessage, t) ==
  [status |-> status, updated_at |-> Some(t),
   sent_at |-> IF status = "sent" /\ sentAt # None THEN sentAt ELSE None,
   error_message |-> IF status = "failed" /\ errorMessage # "" THEN errorMessage ELSE ""]

\* mutant of updateNotificationStatus: the update conditional on the stored status
updateNotificationStatusOnlyPending(row, data, storeOk) ==
  IF ~storeOk \/ row.status # "pending" THEN row
  ELSE [row EXCEPT !.status = data.status,
                   !.updated_at = data.updated_at,
                   !.sent_at = IF data.sent_at # None THEN data.sent_at ELSE @,
                   !.error_message =
                      IF data.error_message # "" THEN data.error_message ELSE @]

\* mutant of updateNotificationStatus: the update lands although the store erred
updateNotificationStatusIgnoresError(row, data, storeOk) ==
  [row EXCEPT !.status = data.status,
              !.updated_at = data.updated_at,
              !.sent_at = IF data.sent_at # None THEN data.sent_at ELSE @,
              !.error_message = IF data.error_message # "" THEN data.error_message ELSE @]

\* mutant of updateNotificationStatus: sent_at stamped by every update
updateNotificationStatusStampsSentAt(row, data, storeOk) ==
  IF ~storeOk THEN row
  ELSE [row EXCEPT !.status = data.status,
                   !.updated_at = data.updated_at,
                   !.sent_at = data.updated_at,
                   !.error_message =
                      IF data.error_message # "" THEN data.error_message ELSE @]

\* the row after .update(updateData).eq('id', id); unchanged when the store errs
updateNotificationStatus(row, data, storeOk) ==
  IF ~storeOk THEN row
  ELSE [row EXCEPT !.status = data.status,
                   !.updated_at = data.updated_at,
                   !.sent_at = IF data.sent_at # None THEN data.sent_at ELSE @,
                   !.error_message =
                      IF data.error_message # "" THEN data.error_message ELSE @]

\* mutant of Eligible: the query without .eq('status', 'pending')
EligibleAnyStatus(row, cutoff) == row.scheduled_at <= cutoff

\* .eq('status','pending').lte('scheduled_at', cutoff)
Eligible(row, cutoff) == row.status = "pending" /\ row.scheduled_at <= cutoff

\* every order the store may return the eligible rows in: ascending scheduled_at
RECURSIVE Orders(_, _)
Orders(table, S) ==
  IF S = {} THEN {<<>>}
  ELSE LET firsts == {x \in S : \A y \in S : table[x].scheduled_at <= table[y].scheduled_at}
       IN UNION {{<<x>> \o rest : rest \in Orders(table, S \ {x})} : x \in firsts}

\* every order of the rows of S
RECURSIVE Perms(_)
Perms(S) ==
  IF S = {} THEN {<<>>}
  ELSE UNION {{<<x>> \o rest : rest \in Perms(S \ {x})} : x \in S}

\* mutant of FetchPending: the query without .order('scheduled_at')
FetchPendingUnordered(table, cutoff) ==
  {SubSeq(s, 1, Min(Len(s), FetchLimit)) :
     s \in Perms({id \in Ids : Eligible(table[id], cutoff)})}

FetchPending(table, cutoff) ==
  {SubSeq(s, 1, Min(Len(s), FetchLimit)) :
     s \in Orders(table, {id \in Ids : Eligible(table[id], cutoff)})}

\* successRate as the fraction num/den
SuccessRate(sentCount, n) ==
  IF n > 0 THEN [num |-> sentCount * 100, den |-> n] ELSE [num |-> 100, den |-> 1]

\* mutant of DelayNeeded: the delay dropped
DelayNever(i, n) == FALSE

\* if (i < pendingNotifications.length - 1), i counted from 1 here
DelayNeeded(i, n) == i < n

\* the reply body: data says whether the body carries a summary
Summary(code, n, sentCount, failedCount, rate, details) ==
  [code |-> code, data |-> TRUE, processed |-> n, sent |-> sentCount,
   failed |-> failedCount, successRate |-> rate, details |-> details]

NoResponse == [code |-> 0, data |-> FALSE, processed |-> 0, sent |-> 0, failed |-> 0,
               successRate |-> [num |-> 0, den |-> 1], details |-> <<>>]
NoEmail == [success |-> FALSE, id |-> "", error |-> ""]
NoWrite == [data |-> updateData("", None, "", 0), result |-> "", emailId |-> "",
            error |-> "", cont |-> ""]

\* the locals of one invocation of a handler; trace is the history of its calls
Idle == [pc |-> "idle", handler |-> "", batch |-> <<>>, i |-> 0,
         effective |-> "", daysOverdueStr |-> None, emailResult |-> NoEmail, write |-> NoWrite, results |-> <<>>,
         sentCount |-> 0, failedCount |-> 0, response |-> NoResponse, trace |-> <<>>]

\* --------------------------------------------------------- renderTemplate
\* a template string and a value are sequences of tokens: a piece of text,
\* a placeholder {{name}}, an opening {{#if name}}, a closing {{/if}}
Text(v) == [k |-> "text", v |-> v]
Placeholder(n) == [k |-> "var", v |-> n]
IfOpen(n) == [k |-> "if", v |-> n]
IfClose == [k |-> "endif", v |-> ""]
\* the two halves of an opening marker when other text stands between them:
\* "{{#if " and "name}}"; side by side they are the marker {{#if name}}
IfHead == [k |-> "ifhead", v |-> ""]
NameTail(n) == [k |-> "tail", v |-> n]

\* the keys of the variable map, in the order Object.entries yields them
VarOrder == <<"x", "y">>
VarNames == {VarOrder[k] : k \in 1..Len(VarOrder)}

RECURSIVE Flatten(_)
Flatten(ss) == IF ss = <<>> THEN <<>> ELSE Head(ss) \o Flatten(Tail(ss))

\* mutant of Truthy: every block kept
TruthyAlways(value) == TRUE

\* value ? inner : '': a supplied, non-empty string
Truthy(value) == value # None /\ value[1] # <<>>

\* the match of singleIfRegex: the leftmost {{#if x}} that has a {{/if}}
\* after it, up to the first such {{/if}}
IfStarts(out) ==
  {i \in 1..Len(out) : out[i].k = "if" /\ \E j \in (i + 1)..Len(out) : out[j].k = "endif"}
MatchStart(out) == CHOOSE i \in IfStarts(out) : \A h \in IfStarts(out) : i <= h
MatchEnd(out) ==
  CHOOSE j \in (MatchStart(out) + 1)..Len(out) :
    /\ out[j].k = "endif"
    /\ \A h \in (MatchStart(out) + 1)..(j - 1) : out[h].k # "endif"

\* the string that a concatenation of pieces is: the halves of a marker that
\* come to stand side by side are that marker
RECURSIVE join(_)
join(out) ==
  IF Len(out) < 2 THEN out
  ELSE IF out[1] = IfHead /\ out[2].k = "tail"
       THEN <<IfOpen(out[2].v)>> \o join(SubSeq(out, 3, Len(out)))
       ELSE <<out[1]>> \o join(Tail(out))

\* mutant of replaceFirstIf: a kept block stays, after a copy of its inner text
replaceFirstIfKeepsMatch(out, variables) ==
  LET i == MatchStart(out)
      j == MatchEnd(out)
      inner == SubSeq(out, i + 1, j - 1)
  IN join(SubSeq(out, 1, i - 1)
            \o (IF Truthy(variables[out[i].v]) THEN inner \o SubSeq(out, i, j) ELSE <<>>)
            \o SubSeq(out, j + 1, Len(out)))

\* output.replace(singleIfRegex, (_match, varName, inner) => value ? inner : '')
replaceFirstIf(out, variables) ==
  LET i == MatchStart(out)
      j == MatchEnd(out)
      inner == SubSeq(out, i + 1, j - 1)
  IN join(SubSeq(out, 1, i - 1)
            \o (IF Truthy(variables[out[i].v]) THEN inner ELSE <<>>)
            \o SubSeq(out, j + 1, Len(out)))

\* while (singleIfRegex.test(output)) output = output.replace(singleIfRegex, ...)
RECURSIVE processConditionals(_, _)
processConditionals(out, variables) ==
  IF IfStarts(out) = {} THEN out
  ELSE processConditionals(replaceFirstIf(out, variables), variables)

\* the replacement string as String.prototype.replace reads it: $$ inserts a $
replacementOf(value) ==
  [k \in 1..Len(value) |-> IF value[k] = Text("$$") THEN Text("$") ELSE value[k]]

\* output.replace(new RegExp('\\{\\{key\\}\\}', 'g'), String(value))
replaceAll(out, key, value) ==
  Flatten([k \in 1..Len(out) |->
             IF out[k] = Placeholder(key) THEN replacementOf(value) ELSE <<out[k]>>])

\* Object.entries(variables).forEach(...), from the k-th key on
RECURSIVE substituteFrom(_, _, _)
substituteFrom(out, variables, k) ==
  IF k > Len(VarOrder) THEN out
  ELSE LET value == variables[VarOrder[k]]
       IN substituteFrom(IF value = None THEN out
                         ELSE replaceAll(out, VarOrder[k], value[1]),
                         variables, k + 1)

renderTemplate(templateString, variables) ==
  IF templateString = <<>> THEN <<>>
  ELSE substituteFrom(processConditionals(templateString, variables), variables, 1)

\* the templates rendered here: up to MaxSegments pieces, each a text, a
\* placeholder or one {{#if}} block that holds no other block
Inners == {<<>>, <<Text("a")>>} \cup {<<Placeholder(n)>> : n \in VarNames}
Block(n, inner) == <<IfOpen(n)>> \o inner \o <<IfClose>>
Segments ==
  {[block |-> FALSE, name |-> "", inner |-> <<Text("a")>>]}
    \cup {[block |-> FALSE, name |-> "", inner |-> <<Placeholder(n)>>] : n \in VarNames}
    \cup {[block |-> TRUE, name |-> n, inner |-> inner] : n \in VarNames, inner \in Inners}
SegmentLists == UNION {[1..n -> Segments] : n \in 0..MaxSegments}
TemplateOf(segs) ==
  Flatten([k \in 1..Len(segs) |->
             IF segs[k].block THEN Block(segs[k].name, segs[k].inner) ELSE segs[k].inner])
\* one {{#if b}} block inside an {{#if a}} block, text before and after it;
\* with nothing after it, the shape ensureGardenInHtml gives a template whose
\* {{#if plant_name}} block has no garden line yet
Nested(a, pre, b, inner, post) == Block(a, pre \o Block(b, inner) \o post)
NestedSegments ==
  {[block |-> TRUE, name |-> a, inner |-> pre \o Block(b, inner) \o post,
    pre |-> pre, nested |-> b, nestedInner |-> inner, post |-> post] :
     a \in VarNames, b \in VarNames,
     pre \in {<<>>, <<Text("p")>>, <<Placeholder("x")>>},
     inner \in {<<Text("g")>>, <<Text("g"), Placeholder("y")>>},
     post \in {<<>>, <<Text("q")>>}}
PlainSegments == {seg \in Segments : ~seg.block}
NestedLists ==
  {<<seg>> : seg \in NestedSegments}
    \cup {<<h, seg>> : h \in PlainSegments, seg \in NestedSegments}
    \cup {<<seg, t>> : seg \in NestedSegments, t \in PlainSegments}
\* the template strings the conditional loop is run on: every string of up
\* to MaxTokens pieces, a text that is part of no marker among them
Pieces == {Text("<p>"), IfClose, IfHead, NameTail("y")} \cup {IfOpen(n) : n \in VarNames}
Strings == {t \in UNION {[1..n -> Pieces] : n \in 0..MaxTokens} : join(t) = t}
\* the length of a string, a whole marker being as long as its two halves
RECURSIVE Size(_)
Size(out) ==
  IF out = <<>> THEN 0 ELSE (IF Head(out).k = "if" THEN 2 ELSE 1) + Size(Tail(out))
\* the values a variable is given: none, the empty string, a text, a text with $$
Values == {None, Some(<<>>), Some(<<Text("a")>>), Some(<<Text("$$")>>)}

NoRender == [pc |-> "none", segments |-> <<>>,
             variables |-> [n \in VarNames |-> None], out |-> <<>>]

\* ------------------------------------------- getTaskContext: enrichment
\* the candidate plant tables, in the order they are tried
PlantTables == <<"user_plants", "plants", "plantas">>
\* what a plant table answers: a record with a name and a tenda_id, one with
\* a name and no tenda_id, no record or no name, an error, an exception
PlantAnswers == {"named", "namedNoTenda", "noname", "error", "throw"}
\* what the tendas table answers for the tenda_id of a plant record
TendaAnswers == {"named", "unnamed", "throw"}

\* mutant of probePlant: every candidate tried, the last name found taken
RECURSIVE probePlantAll(_, _, _, _)
probePlantAll(k, answers, tenda, calls) ==
  IF k > Len(PlantTables)
  THEN [plantName |-> None, gardenName |-> None, calls |-> calls]
  ELSE LET t == PlantTables[k]
           rest == probePlantAll(k + 1, answers, tenda, Append(calls, t))
       IN IF answers[t] \in {"named", "namedNoTenda"} /\ rest.plantName = None
          THEN [rest EXCEPT !.plantName = Some(t)]
          ELSE rest

\* the probes from the k-th candidate on: the first record with a name gives
\* plantName and, through its tenda_id, gardenName; anything else is a miss
RECURSIVE probePlant(_, _, _, _)
probePlant(k, answers, tenda, calls) ==
  IF k > Len(PlantTables)
  THEN [plantName |-> None, gardenName |-> None, calls |-> calls]
  ELSE LET t == PlantTables[k]
       IN CASE answers[t] = "named" ->
                 [plantName |-> Some(t),
                  gardenName |-> IF tenda = "named" THEN Some(t) ELSE None,
                  calls |-> calls \o <<t, "tendas">>]
            [] answers[t] = "namedNoTenda" ->
                 [plantName |-> Some(t), gardenName |-> None, calls |-> Append(calls, t)]
            [] OTHER -> probePlant(k + 1, answers, tenda, Append(calls, t))

\* if (!plantName && plantId !== undefined && plantId !== null) ...
enrich(row, answers, tenda, calls) ==
  IF row.plant_name = None /\ row.plantIdKnown
  THEN probePlant(1, answers, tenda, calls)
  ELSE [plantName |-> row.plant_name, gardenName |-> None, calls |-> calls]

\* the queries of the completion part, in the order they are made
completionCalls(task) ==
  (IF "task" \in LookupsMade(task) THEN <<task.table>> ELSE <<>>)
    \o (IF "log" \in LookupsMade(task) THEN <<"task_completions">> ELSE <<>>)

\* the whole TaskContext, with the queries made: enrichment only for user_tasks
resolveTask(task, lookupErr, row, answers, tenda) ==
  LET c == getTaskContext(task, lookupErr)
      bare == [plantName |-> None, gardenName |-> None, calls |-> completionCalls(task)]
      e == IF task.table = "user_tasks" /\ lookupErr # "task"
           THEN enrich(row, answers, tenda, completionCalls(task)) ELSE bare
  IN [isCompleted |-> c.isCompleted, completedAt |-> c.completedAt,
      plantName |-> e.plantName, gardenName |-> e.gardenName,
      taskCategory |-> IF task.table = "user_tasks" /\ lookupErr # "task"
                       THEN row.category ELSE None,
      calls |-> IF lookupErr = "task" THEN <<task.table>> ELSE e.calls]

\* plant_name, task_category and garden_name of the variable map
variablesOf(taskCtx, template_variables) ==
  [plant_name |-> IF taskCtx.plantName # None THEN taskCtx.plantName
                  ELSE template_variables.plant_name,
   task_category |-> IF taskCtx.taskCategory # None THEN taskCtx.taskCategory
                     ELSE template_variables.task_category,
   garden_name |-> taskCtx.gardenName]

\* every task row a notification can be linked to
AllTaskRows ==
  [table : {"none", "todos", "user_tasks", "plants"}, completed : BOOLEAN,
   status : {"pending", "completed"}, completed_at : {None, Some(1)}, log : {{}, {2, 3}}]
\* plant_name, plant_id and category of a user_tasks row
PlantRows == [plant_name : {None, Some("row")}, plantIdKnown : BOOLEAN,
              category : {None, Some("row")}]
\* the values pre-stored in notification.template_variables
StoredVariables == [plant_name : {None, Some("stored")}, task_category : {None, Some("stored")},
                    garden_name : {None, Some("stored")}]
UserTaskOpen == [table |-> "user_tasks", completed |-> FALSE, status |-> "pending",
                 completed_at |-> None, log |-> {}]

NoResolve == [pc |-> "none", task |-> NoTask, lookupErr |-> "none",
              row |-> [plant_name |-> None, plantIdKnown |-> FALSE, category |-> None],
              answers |-> [k \in 1..0 |-> ""], tenda |-> "",
              template_variables |-> [plant_name |-> None, task_category |-> None,
                                      garden_name |-> None],
              ctx |-> [isCompleted |-> FALSE, completedAt |-> None, plantName |-> None,
                       gardenName |-> None, taskCategory |-> None, calls |-> <<>>],
              variables |-> [plant_name |-> None, task_category |-> None,
                             garden_name |-> None]]

\* ------------------------------------------------------------------- Init
NewRow(s, k) == [status |-> "pending", scheduled_at |-> s, template_key |-> k,
                 sent_at |-> None, error_message |-> "", updated_at |-> None]

Init ==
  /\ now = Epoch0
  /\ sysOffset = 0
  /\ notifications \in [Ids -> {NewRow(s, k) : s \in SchedTimes, k \in TemplateKeys}]
  /\ \A a, b \in Ids : a < b => notifications[a].scheduled_at <= notifications[b].scheduled_at
  /\ email_templates \in LoopTemplates
  /\ tasks \in [Ids -> LoopTaskRows]
  /\ inv = [p \in Procs |-> Idle]
  /\ sends = [id \in Ids |-> 0]
  /\ runs = 0
  /\ faults = 0
  /\ render = NoRender
  /\ resolve = NoResolve

\* ---------------------------------------------------------------- actions
\* the answers a store operation may give: it works, or (within the budget) it fails
StoreAnswers == IF faults < MaxFaults THEN BOOLEAN ELSE {TRUE}
\* the lookup that fails, if one does
LookupAnswers(task) ==
  IF faults < MaxFaults THEN {"none"} \cup LookupsMade(task) ELSE {"none"}
Fault(failed) == faults' = IF failed THEN faults + 1 ELSE faults

Cur(p) == inv[p].batch[inv[p].i]
Ev(op, id, ok) == [op |-> op, id |-> id, ok |-> ok]
Log(p, op, id, ok) == Append(inv[p].trace, Ev(op, id, ok))

\* the synchronous tail of the loop: the success response with the summary
Finished(r) ==
  [r EXCEPT !.pc = "done",
            !.response = Summary(200, Len(r.batch), r.sentCount, r.failedCount,
                                 SuccessRate(r.sentCount, Len(r.batch)), r.results)]

\* continue / end of the loop body: the next notification or the summary
Advance(r) ==
  IF r.i < Len(r.batch) THEN [r EXCEPT !.i = r.i + 1, !.pc = "template"]
  ELSE Finished(r)

\* the outer catch: reply.status(500) with a zeroed summary
InternalError(r) ==
  [r EXCEPT !.pc = "done",
            !.response = Summary(500, 0, 0, 0, [num |-> 0, den |-> 1], <<>>)]

\* mutant of FetchFailed: the fetch error taken for an empty result
FetchFailedAsEmpty(r) ==
  [r EXCEPT !.pc = "done", !.trace = <<Ev("fetch", 0, FALSE)>>,
            !.response = Summary(200, 0, 0, 0, SuccessRate(0, 0), <<>>)]

\* if (fetchError) return reply.status(500): no data in the body
FetchFailed(r) ==
  [r EXCEPT !.pc = "done", !.trace = <<Ev("fetch", 0, FALSE)>>,
            !.response = [NoResponse EXCEPT !.code = 500]]

\* mutant of Fetched: every row of the answer taken twice
FetchedTwice(r, b) ==
  IF Len(b) = 0
  THEN [r EXCEPT !.pc = "done", !.trace = <<Ev("fetch", 0, TRUE)>>,
                 !.response = Summary(200, 0, 0, 0, SuccessRate(0, 0), <<>>)]
  ELSE [r EXCEPT !.pc = "template", !.batch = b \o b, !.i = 1,
                 !.trace = <<Ev("fetch", 0, TRUE)>>]

\* the query answered with the rows b: the empty summary, or the loop starts
Fetched(r, b) ==
  IF Len(b) = 0
  THEN [r EXCEPT !.pc = "done", !.trace = <<Ev("fetch", 0, TRUE)>>,
                 !.response = Summary(200, 0, 0, 0, SuccessRate(0, 0), <<>>)]
  ELSE [r EXCEPT !.pc = "template", !.batch = b, !.i = 1,
                 !.trace = <<Ev("fetch", 0, TRUE)>>]

\* the query for pending notifications is answered
FetchStep(p) ==
  /\ inv[p].pc = "idle"
  /\ \E storeOk \in StoreAnswers :
       /\ Fault(~storeOk)
       /\ IF ~storeOk
          THEN inv' = [inv EXCEPT ![p] = FetchFailed([Idle EXCEPT !.handler = "send"])]
          ELSE \E b \in FetchPending(notifications, nowUTC(now, sysOffset)) :
                 inv' = [inv EXCEPT ![p] = Fetched([Idle EXCEPT !.handler = "send"], b)]
  /\ UNCHANGED <<resolve, render, now, sysOffset, notifications, email_templates, tasks, sends>>

\* the request arrives: one of the MaxRuns invocations of a behaviour
FetchNotifications(p) ==
  /\ runs < MaxRuns
  /\ runs' = runs + 1
  /\ FetchStep(p)

\* the scheduled workflow calls the endpoint again and again, without bound
Cron(p) ==
  /\ runs' = runs
  /\ FetchStep(p)

\* the status write and the result of a notification that is not sent
Failure(reason, result, t) ==
  [data |-> updateData("failed", None, reason, t), result |-> result,
   emailId |-> "null", error |-> reason, cont |-> "continue"]

\* if (!template): mark failed, record the result, continue
AfterTemplate(r, tpl, t) ==
  IF tpl = None
  THEN [r EXCEPT !.pc = "write", !.write = Failure("Template nao encontrado", "failed", t)]
  ELSE [r EXCEPT !.pc = "context"]

\* const template = await this.getEmailTemplate(notification.template_key)
LookupTemplate(p) ==
  /\ inv[p].pc = "template"
  /\ \E storeOk \in StoreAnswers :
       /\ Fault(~storeOk)
       /\ LET n == Cur(p)
              tpl == getEmailTemplate(email_templates, notifications[n].template_key, storeOk)
          IN inv' = [inv EXCEPT ![p] =
               AfterTemplate([@ EXCEPT !.trace = Log(p, "getEmailTemplate", n, tpl # None)],
                             tpl, nowUTC(now, sysOffset))]
  /\ UNCHANGED <<resolve, render, now, sysOffset, notifications, email_templates, tasks, sends, runs>>

\* the escalation rule, then if (taskCtx.isCompleted): mark failed, record, continue
AfterContext(r, row, ctx, t, clock) ==
  LET eff == effectiveTemplateOf(row.template_key, isOld(clock, row.scheduled_at),
                                 ctx.isCompleted)
  IN IF ctx.isCompleted
     THEN [r EXCEPT !.pc = "write", !.effective = eff,
                    !.write = Failure("Task already completed", "skipped_completed", t)]
     ELSE IF eff = row.template_key
          THEN [r EXCEPT !.pc = "send", !.effective = eff,
                         !.daysOverdueStr = daysOverdue(eff, clock, row.scheduled_at)]
          ELSE [r EXCEPT !.pc = "overdueTemplate", !.effective = eff,
                         !.daysOverdueStr = daysOverdue(eff, clock, row.scheduled_at)]

\* const taskCtx = await this.getTaskContext(notification)
ResolveContext(p) ==
  /\ inv[p].pc = "context"
  /\ \E lookupErr \in LookupAnswers(tasks[Cur(p)]) :
       /\ Fault(lookupErr # "none")
       /\ LET n == Cur(p)
              ctx == getTaskContext(tasks[n], lookupErr)
          IN inv' = [inv EXCEPT ![p] =
               AfterContext([@ EXCEPT !.trace = Log(p, "getTaskContext", n, lookupErr = "none")],
                            notifications[n], ctx, nowUTC(now, sysOffset), now)]
  /\ UNCHANGED <<resolve, render, now, sysOffset, notifications, email_templates, tasks, sends, runs>>

\* tpl!.html_template: a null template throws into the outer catch
AfterOverdueTemplate(r, tpl) ==
  IF tpl = None THEN InternalError(r) ELSE [r EXCEPT !.pc = "send"]

\* await this.getEmailTemplate(effectiveTemplate)
LookupOverdueTemplate(p) ==
  /\ inv[p].pc = "overdueTemplate"
  /\ \E storeOk \in StoreAnswers :
       /\ Fault(~storeOk)
       /\ LET n == Cur(p)
              tpl == getEmailTemplate(email_templates, inv[p].effective, storeOk)
          IN inv' = [inv EXCEPT ![p] =
               AfterOverdueTemplate([@ EXCEPT !.trace = Log(p, "getEmailTemplate", n, tpl # None)],
                                    tpl)]
  /\ UNCHANGED <<resolve, render, now, sysOffset, notifications, email_templates, tasks, sends, runs>>

\* EmailUseCases.sendEmail: the service's answer, a thrown error turned into a failure
sendEmail(outcome) ==
  CASE outcome = "ok" -> [success |-> TRUE, id |-> "email-id", error |-> ""]
    [] outcome = "error" -> [success |-> FALSE, id |-> "", error |-> "Falha ao enviar email"]
    [] OTHER -> [success |-> FALSE, id |-> "", error |-> "Erro interno do servidor"]

\* mutant of AfterSend: the answer's success flag not looked at
AfterSendAlwaysSent(emailResult, t) ==
  [data |-> updateData("sent", Some(t), "", t), result |-> "sent",
   emailId |-> emailResult.id, error |-> "null", cont |-> "delay"]

\* the status write and the result that follow an answer of sendEmail
AfterSend(emailResult, t) ==
  IF emailResult.success
  THEN [data |-> updateData("sent", Some(t), "", t), result |-> "sent",
        emailId |-> emailResult.id, error |-> "null", cont |-> "delay"]
  ELSE [data |-> updateData("failed", None, emailResult.error, t), result |-> "failed",
        emailId |-> "null", error |-> emailResult.error, cont |-> "delay"]

\* mutant of SendEmail: the row re-read and sent only while it is still pending
SendEmailRechecks(p) ==
  /\ inv[p].pc = "send"
  /\ notifications[Cur(p)].status = "pending"
  /\ \E outcome \in {"ok", "error", "throw"} :
       LET emailResult == sendEmail(outcome)
       IN inv' = [inv EXCEPT ![p] =
            [@ EXCEPT !.pc = "write", !.emailResult = emailResult,
                      !.trace = Log(p, "sendEmail", Cur(p), emailResult.success),
                      !.write = AfterSend(emailResult, nowUTC(now, sysOffset))]]
  /\ sends' = [sends EXCEPT ![Cur(p)] = @ + 1]
  /\ UNCHANGED <<resolve, render, now, sysOffset, notifications, email_templates, tasks, runs, faults>>

\* const emailResult = await this.emailUseCases.sendEmail(emailData)
SendEmail(p) ==
  /\ inv[p].pc = "send"
  /\ \E outcome \in {"ok", "error", "throw"} :
       LET emailResult == sendEmail(outcome)
       IN inv' = [inv EXCEPT ![p] =
            [@ EXCEPT !.pc = "write", !.emailResult = emailResult,
                      !.trace = Log(p, "sendEmail", Cur(p), emailResult.success),
                      !.write = AfterSend(emailResult, nowUTC(now, sysOffset))]]
  /\ sends' = [sends EXCEPT ![Cur(p)] = @ + 1]
  /\ UNCHANGED <<resolve, render, now, sysOffset, notifications, email_templates, tasks, runs, faults>>

\* mutant of Record: a skipped notification counted in neither tally
RecordSkippedUncounted(r) ==
  [r EXCEPT !.results = Append(@, [notificationId |-> r.batch[r.i], status |-> r.write.result,
                                   emailId |-> r.write.emailId, error |-> r.write.error]),
            !.sentCount = IF r.write.result = "sent" THEN @ + 1 ELSE @,
            !.failedCount = IF r.write.result = "failed" THEN @ + 1 ELSE @,
            !.write = NoWrite, !.emailResult = NoEmail, !.daysOverdueStr = None]

\* results.push(...) and the counter that goes with it
Record(r) ==
  [r EXCEPT !.results = Append(@, [notificationId |-> r.batch[r.i], status |-> r.write.result,
                                   emailId |-> r.write.emailId, error |-> r.write.error]),
            !.sentCount = IF r.write.result = "sent" THEN @ + 1 ELSE @,
            !.failedCount = IF r.write.result = "sent" THEN @ ELSE @ + 1,
            !.write = NoWrite, !.emailResult = NoEmail, !.daysOverdueStr = None]

\* where the loop goes after the status write: continue, or the delay when this is
\* not the last notification, and then the loop's i++
AfterWrite(r, cont) ==
  IF cont = "continue" THEN Advance(r)
  ELSE IF DelayNeeded(r.i, Len(r.batch)) THEN [r EXCEPT !.pc = "delay"]
  ELSE Advance(r)

\* mutant of WriteStatus: a store error on the update raised into the outer catch
WriteStatusRaises(p) ==
  /\ inv[p].pc = "write"
  /\ \E storeOk \in StoreAnswers :
       /\ Fault(~storeOk)
       /\ notifications' = [notifications EXCEPT ![Cur(p)] =
                              updateNotificationStatus(@, inv[p].write.data, storeOk)]
       /\ inv' = [inv EXCEPT ![p] =
            IF storeOk
            THEN AfterWrite(Record([@ EXCEPT !.trace =
                                      Log(p, "updateNotificationStatus", Cur(p), storeOk)]),
                            inv[p].write.cont)
            ELSE InternalError([@ EXCEPT !.trace =
                                  Log(p, "updateNotificationStatus", Cur(p), storeOk)])]
  /\ UNCHANGED <<resolve, render, now, sysOffset, email_templates, tasks, sends, runs>>

\* await this.updateNotificationStatus(...): the update reaches the store or is lost
WriteStatus(p) ==
  /\ inv[p].pc = "write"
  /\ \E storeOk \in StoreAnswers :
       /\ Fault(~storeOk)
       /\ notifications' = [notifications EXCEPT ![Cur(p)] =
                              updateNotificationStatus(@, inv[p].write.data, storeOk)]
       /\ inv' = [inv EXCEPT ![p] =
            AfterWrite(Record([@ EXCEPT !.trace =
                                 Log(p, "updateNotificationStatus", Cur(p), storeOk)]),
                       inv[p].write.cont)]
  /\ UNCHANGED <<resolve, render, now, sysOffset, email_templates, tasks, sends, runs>>

\* await new Promise(resolve => setTimeout(resolve, 600))
Delay(p) ==
  /\ inv[p].pc = "delay"
  /\ inv' = [inv EXCEPT ![p] = Advance([@ EXCEPT !.trace = Log(p, "delay", Cur(p), TRUE)])]
  /\ UNCHANGED <<resolve, render, now, sysOffset, notifications, email_templates, tasks, sends, runs, faults>>

\* the reply has been sent; the handler's locals are gone
Return(p) ==
  /\ inv[p].pc = "done"
  /\ inv' = [inv EXCEPT ![p] = Idle]
  /\ UNCHANGED <<resolve, render, now, sysOffset, notifications, email_templates, tasks, sends, runs, faults>>

\* an hour passes, between two invocations or during the inter-item delay
Tick ==
  /\ \A q \in Procs : inv[q].pc \in {"idle", "delay"}
  /\ now < Epoch0 + MaxTicks
  /\ now' = now + 1
  /\ UNCHANGED <<resolve, render, sysOffset, notifications, email_templates, tasks, inv, sends, runs, faults>>

\* ------------------------------------ processPendingNotifications (preview)
\* the preview's reply: processed and the prepared emails
PreviewDone(r) ==
  [r EXCEPT !.pc = "done",
            !.response = [NoResponse EXCEPT !.code = 200, !.data = TRUE,
                                            !.processed = Len(r.batch),
                                            !.details = r.results]]

PreviewAdvance(r) ==
  IF r.i < Len(r.batch) THEN [r EXCEPT !.i = r.i + 1, !.pc = "pvContext"]
  ELSE PreviewDone(r)

PreviewFetched(r, b) ==
  IF Len(b) = 0
  THEN PreviewDone([r EXCEPT !.trace = <<Ev("fetch", 0, TRUE)>>])
  ELSE [r EXCEPT !.pc = "pvContext", !.batch = b, !.i = 1,
                 !.trace = <<Ev("fetch", 0, TRUE)>>]

\* the preview request arrives and its query for pending notifications is answered
PreviewFetch(p) ==
  /\ inv[p].pc = "idle"
  /\ runs < MaxRuns
  /\ runs' = runs + 1
  /\ \E storeOk \in StoreAnswers :
       /\ Fault(~storeOk)
       /\ IF ~storeOk
          THEN inv' = [inv EXCEPT ![p] = FetchFailed([Idle EXCEPT !.handler = "preview"])]
          ELSE \E b \in FetchPending(notifications, nowUTC(now, sysOffset)) :
                 inv' = [inv EXCEPT ![p] =
                           PreviewFetched([Idle EXCEPT !.handler = "preview"], b)]
  /\ UNCHANGED <<resolve, render, now, sysOffset, notifications, email_templates, tasks, sends>>

\* mutant of completedBeforeSchedule: every completed task counts
completedBeforeScheduleAlways(ctx, scheduled_at) == ctx.completedAt # None

\* completedAt && scheduledAt && completedAt <= scheduledAt
completedBeforeSchedule(ctx, scheduled_at) ==
  ctx.completedAt # None /\ ctx.completedAt[1] <= scheduled_at

\* the rule 'completed before the schedule': mark failed and continue
AfterPreviewContext(r, row, ctx, t) ==
  IF completedBeforeSchedule(ctx, row.scheduled_at)
  THEN [r EXCEPT !.pc = "pvWrite",
                 !.write = Failure("completed_before_schedule", "skipped", t)]
  ELSE [r EXCEPT !.pc = "pvTemplate"]

\* const taskCtx = await this.getTaskContext(notification), first call
PreviewContext(p) ==
  /\ inv[p].pc = "pvContext"
  /\ \E lookupErr \in LookupAnswers(tasks[Cur(p)]) :
       /\ Fault(lookupErr # "none")
       /\ LET n == Cur(p)
              ctx == getTaskContext(tasks[n], lookupErr)
          IN inv' = [inv EXCEPT ![p] =
               AfterPreviewContext([@ EXCEPT !.trace =
                                      Log(p, "getTaskContext", n, lookupErr = "none")],
                                   notifications[n], ctx, nowUTC(now, sysOffset))]
  /\ UNCHANGED <<resolve, render, now, sysOffset, notifications, email_templates, tasks, sends, runs>>

\* await this.updateNotificationStatus(id, 'failed', undefined, 'completed_before_schedule')
PreviewWrite(p) ==
  /\ inv[p].pc = "pvWrite"
  /\ \E storeOk \in StoreAnswers :
       /\ Fault(~storeOk)
       /\ notifications' = [notifications EXCEPT ![Cur(p)] =
                              updateNotificationStatus(@, inv[p].write.data, storeOk)]
       /\ inv' = [inv EXCEPT ![p] =
            PreviewAdvance([@ EXCEPT !.write = NoWrite, !.trace =
                              Log(p, "updateNotificationStatus", Cur(p), storeOk)])]
  /\ UNCHANGED <<resolve, render, now, sysOffset, email_templates, tasks, sends, runs>>

\* const template = await this.getEmailTemplate(...); if (!template) continue
PreviewTemplate(p) ==
  /\ inv[p].pc = "pvTemplate"
  /\ \E storeOk \in StoreAnswers :
       /\ Fault(~storeOk)
       /\ LET n == Cur(p)
              tpl == getEmailTemplate(email_templates, notifications[n].template_key, storeOk)
              r == [inv[p] EXCEPT !.trace = Log(p, "getEmailTemplate", n, tpl # None)]
          IN inv' = [inv EXCEPT ![p] =
               IF tpl = None THEN PreviewAdvance(r) ELSE [r EXCEPT !.pc = "pvPrepare"]]
  /\ UNCHANGED <<resolve, render, now, sysOffset, notifications, email_templates, tasks, sends, runs>>

\* the second getTaskContext, the render and emailData.push(...)
PreviewPrepare(p) ==
  /\ inv[p].pc = "pvPrepare"
  /\ \E lookupErr \in LookupAnswers(tasks[Cur(p)]) :
       /\ Fault(lookupErr # "none")
       /\ LET n == Cur(p)
              r == [inv[p] EXCEPT !.trace = Log(p, "getTaskContext", n, lookupErr = "none")]
          IN inv' = [inv EXCEPT ![p] =
               PreviewAdvance([r EXCEPT !.results =
                 Append(@, [notificationId |-> n, status |-> "prepared",
                            emailId |-> "null", error |-> "null"])])]
  /\ UNCHANGED <<resolve, render, now, sysOffset, notifications, email_templates, tasks, sends, runs>>

PreviewStep(p) ==
  \/ PreviewContext(p)
  \/ PreviewWrite(p)
  \/ PreviewTemplate(p)
  \/ PreviewPrepare(p)

Step(p) ==
  \/ LookupTemplate(p)
  \/ ResolveContext(p)
  \/ LookupOverdueTemplate(p)
  \/ SendEmail(p)
  \/ WriteStatus(p)
  \/ Delay(p)
  \/ Return(p)

AllIdle == \A q \in Procs : inv[q].pc = "idle"

\* one invocation at a time: the scheduling discipline the design assumes
Next ==
  \/ Tick
  \/ AllIdle /\ FetchNotifications("p1")
  \/ Step("p1")

Spec == Init /\ [][Next]_vars

\* both handlers of the pending notifications, still one invocation at a time
NextHandlers ==
  \/ Tick
  \/ AllIdle /\ FetchNotifications("p1")
  \/ AllIdle /\ PreviewFetch("p1")
  \/ Step("p1")
  \/ PreviewStep("p1")

SpecHandlers == Init /\ [][NextHandlers]_vars

\* the server process in either zone: UTC, or America/Sao_Paulo itself
InitZones ==
  /\ now = Epoch0
  /\ sysOffset \in SystemOffsets
  /\ notifications \in [Ids -> {NewRow(s, k) : s \in SchedTimes, k \in TemplateKeys}]
  /\ \A a, b \in Ids : a < b => notifications[a].scheduled_at <= notifications[b].scheduled_at
  /\ email_templates = TemplateKeys
  /\ tasks \in [Ids -> LoopTaskRows]
  /\ inv = [p \in Procs |-> Idle]
  /\ sends = [id \in Ids |-> 0]
  /\ runs = 0
  /\ faults = 0
  /\ render = NoRender
  /\ resolve = NoResolve

SpecZones == InitZones /\ [][Next]_vars

\* two requests served at once: the awaits of the two invocations interleave
InitOverlap ==
  /\ now = Epoch0
  /\ sysOffset = 0
  /\ notifications \in [Ids -> {NewRow(s, "task_reminder") : s \in SchedTimes}]
  /\ \A a, b \in Ids : a < b => notifications[a].scheduled_at <= notifications[b].scheduled_at
  /\ email_templates = TemplateKeys
  /\ tasks = [id \in Ids |-> NoTask]
  /\ inv = [p \in Procs |-> Idle]
  /\ sends = [id \in Ids |-> 0]
  /\ runs = 0
  /\ faults = 0
  /\ render = NoRender
  /\ resolve = NoResolve

NextOverlap ==
  \/ \E p \in Procs : FetchNotifications(p) \/ Step(p)

SpecOverlap == InitOverlap /\ [][NextOverlap]_vars

\* this.renderTemplate(tpl.html_template, variables) on its own
InitRender ==
  /\ now = Epoch0
  /\ sysOffset = 0
  /\ notifications = [id \in Ids |-> NewRow(Epoch0 - FiveDays, "task_reminder")]
  /\ email_templates = TemplateKeys
  /\ tasks = [id \in Ids |-> NoTask]
  /\ inv = [p \in Procs |-> Idle]
  /\ sends = [id \in Ids |-> 0]
  /\ runs = 0
  /\ faults = 0
  /\ \E segs \in SegmentLists : \E variables \in [VarNames -> Values] :
       render = [pc |-> "call", segments |-> segs, variables |-> variables, out |-> <<>>]
  /\ resolve = NoResolve

Render ==
  /\ render.pc = "call"
  /\ render' = [render EXCEPT !.pc = "done",
                              !.out = renderTemplate(TemplateOf(render.segments),
                                                     render.variables)]
  /\ UNCHANGED <<resolve, now, sysOffset, notifications, email_templates, tasks, inv, sends,
                 runs, faults>>

SpecRender == InitRender /\ [][Render]_vars

\* renderTemplate on a template with a block inside a block
InitNested ==
  /\ now = Epoch0
  /\ sysOffset = 0
  /\ notifications = [id \in Ids |-> NewRow(Epoch0 - FiveDays, "task_reminder")]
  /\ email_templates = TemplateKeys
  /\ tasks = [id \in Ids |-> NoTask]
  /\ inv = [p \in Procs |-> Idle]
  /\ sends = [id \in Ids |-> 0]
  /\ runs = 0
  /\ faults = 0
  /\ \E segs \in NestedLists : \E variables \in [VarNames -> Values] :
       render = [pc |-> "call", segments |-> segs, variables |-> variables, out |-> <<>>]
  /\ resolve = NoResolve

SpecNested == InitNested /\ [][Render]_vars

\* the conditional loop of renderTemplate, one iteration at a time:
\* let output = templateString
InitLoop ==
  /\ now = Epoch0
  /\ sysOffset = 0
  /\ notifications = [id \in Ids |-> NewRow(Epoch0 - FiveDays, "task_reminder")]
  /\ email_templates = TemplateKeys
  /\ tasks = [id \in Ids |-> NoTask]
  /\ inv = [p \in Procs |-> Idle]
  /\ sends = [id \in Ids |-> 0]
  /\ runs = 0
  /\ faults = 0
  /\ \E t \in Strings \ {<<>>} : \E variables \in [VarNames -> {None, Some(<<>>), Some(<<Text("a")>>)}] :
       render = [pc |-> "loop", segments |-> <<[block |-> FALSE, name |-> "", inner |-> t]>>,
                 variables |-> variables, out |-> t]
  /\ resolve = NoResolve

\* singleIfRegex.test(output) holds: output = output.replace(singleIfRegex, ...)
LoopStep ==
  /\ render.pc = "loop"
  /\ IfStarts(render.out) # {}
  /\ render' = [render EXCEPT !.out = replaceFirstIf(render.out, render.variables)]
  /\ UNCHANGED <<resolve, now, sysOffset, notifications, email_templates, tasks, inv, sends,
                 runs, faults>>

\* singleIfRegex.test(output) fails: the variables are substituted
LoopExit ==
  /\ render.pc = "loop"
  /\ IfStarts(render.out) = {}
  /\ render' = [render EXCEPT !.pc = "done",
                              !.out = substituteFrom(render.out, render.variables, 1)]
  /\ UNCHANGED <<resolve, now, sysOffset, notifications, email_templates, tasks, inv, sends,
                 runs, faults>>

NextLoop == LoopStep \/ LoopExit

SpecLoop == InitLoop /\ [][NextLoop]_vars

\* the scheduler keeps calling and the store never fails
InitLive ==
  /\ now = Epoch0
  /\ sysOffset = 0
  /\ notifications \in [Ids -> {NewRow(s, k) : s \in SchedTimes, k \in TemplateKeys}]
  /\ \A a, b \in Ids : a < b => notifications[a].scheduled_at <= notifications[b].scheduled_at
  /\ email_templates \in LoopTemplates
  /\ tasks \in [Ids -> LoopTaskRows]
  /\ inv = [p \in Procs |-> Idle]
  /\ sends = [id \in Ids |-> 0]
  /\ runs = 0
  /\ faults = MaxFaults
  /\ render = NoRender
  /\ resolve = NoResolve

NextLive ==
  \/ Tick
  \/ AllIdle /\ Cron("p1")
  \/ Step("p1")

\* every call that is made returns, and the scheduler does call again
SpecLive ==
  InitLive /\ [][NextLive]_vars /\ WF_vars(AllIdle /\ Cron("p1")) /\ WF_vars(Step("p1"))

\* getTaskContext and the variables built from it, on their own
PlantTableSet == {PlantTables[k] : k \in 1..Len(PlantTables)}
ResolveInputs ==
  {[NoResolve EXCEPT !.pc = "call", !.task = task, !.lookupErr = e,
                     !.answers = [t \in PlantTableSet |-> "noname"], !.tenda = "named"] :
     task \in AllTaskRows, e \in {"none", "task", "log"}}
  \cup
  {[NoResolve EXCEPT !.pc = "call", !.task = UserTaskOpen, !.row = row, !.answers = answers,
                     !.tenda = tenda, !.template_variables = tv] :
     row \in PlantRows, answers \in [PlantTableSet -> PlantAnswers],
     tenda \in TendaAnswers, tv \in StoredVariables}

InitResolve ==
  /\ now = Epoch0
  /\ sysOffset = 0
  /\ notifications = [id \in Ids |-> NewRow(Epoch0 - FiveDays, "task_reminder")]
  /\ email_templates = TemplateKeys
  /\ tasks = [id \in Ids |-> NoTask]
  /\ inv = [p \in Procs |-> Idle]
  /\ sends = [id \in Ids |-> 0]
  /\ runs = 0
  /\ faults = 0
  /\ render = NoRender
  /\ resolve \in {r \in ResolveInputs : r.lookupErr \in {"none"} \cup LookupsMade(r.task)}

Resolve ==
  /\ resolve.pc = "call"
  /\ LET ctx == resolveTask(resolve.task, resolve.lookupErr, resolve.row,
                            resolve.answers, resolve.tenda)
     IN resolve' = [resolve EXCEPT !.pc = "done", !.ctx = ctx,
                                   !.variables = variablesOf(ctx, resolve.template_variables)]
  /\ UNCHANGED <<render, now, sysOffset, notifications, email_templates, tasks, inv, sends,
                 runs, faults>>

SpecResolve == InitResolve /\ [][Resolve]_vars

\* ------------------------------------------------------------------ claims
P1 == inv["p1"]
Positions(r) == 1..Len(r.trace)
\* the per-item results recorded for notification id
ResultsOf(r, id) == {k \in 1..Len(r.results) : r.results[k].notificationId = id}
\* the place of notification id in the fetched batch
IndexOf(r, id) == CHOOSE k \in 1..Len(r.batch) : r.batch[k] = id
\* the linked task is completed in the store
TaskCompleted(id) == getTaskContext(tasks[id], "none").isCompleted
SendsIn(r) == {k \in Positions(r) : r.trace[k].op = "sendEmail"}

\* the status write issued by the step, if the step issues one
WriteIssued(id) ==
  /\ P1'.pc # "idle"
  /\ Len(P1'.trace) = Len(P1.trace) + 1
  /\ P1'.trace[Len(P1'.trace)].op = "updateNotificationStatus"
  /\ P1'.trace[Len(P1'.trace)].id = id

\* C1: over non-overlapping invocations of the two handlers, a stored
\* notification changes only from pending to sent or from pending to failed;
\* a status write is issued only for a notification that is pending, and a
\* notification that is sent or failed is never fetched again.
C1_PendingToTerminalOnly ==
  [][/\ \A id \in Ids :
          notifications'[id] # notifications[id] =>
            /\ notifications[id].status = "pending"
            /\ notifications'[id].status \in {"sent", "failed"}
     /\ \A id \in Ids : WriteIssued(id) => notifications[id].status = "pending"
     /\ (P1.pc = "idle" /\ P1'.pc # "idle") =>
          \A k \in 1..Len(P1'.batch) :
            notifications[P1'.batch[k]].status = "pending"]_vars

\* a second invocation has fetched and written a notification while another
\* one, already sent or failed and due, stayed out of its batch
C1_Witness ==
  /\ runs = 2 /\ Len(P1.batch) > 0
  /\ \E k \in Positions(P1) : P1.trace[k].op = "updateNotificationStatus" /\ P1.trace[k].ok
  /\ \E id \in Ids :
       /\ notifications[id].status \in {"sent", "failed"}
       /\ notifications[id].scheduled_at <= nowUTC(now, sysOffset)
       /\ \A k \in 1..Len(P1.batch) : P1.batch[k] # id

\* C2: every fetched notification whose linked task resolves as completed is
\* recorded as skipped_completed with the reason 'Task already completed' and
\* is never sent, whether or not its template exists. Stated for runs in which
\* no store operation fails, so that the task does resolve.
C2_CompletedAlwaysSkipped ==
  faults = 0 =>
    \A k \in 1..Len(P1.results) :
      TaskCompleted(P1.results[k].notificationId) =>
        /\ P1.results[k].status = "skipped_completed"
        /\ P1.results[k].error = "Task already completed"

\* C3: the error response (500) is given only when the initial fetch failed.
C3_ErrorOnlyOnFetchFailure ==
  (P1.pc = "done" /\ P1.response.code = 500) =>
    P1.trace = <<Ev("fetch", 0, FALSE)>>

\* C4: a notification whose template is not found (the template of its
\* template_key, or the task_overdue template selected by escalation) gets a
\* failed result, and every notification of the batch is processed.
C4_MissingTemplateFailsItemOnly ==
  (P1.pc = "done" /\ P1.trace[1].ok) =>
    \A k \in 1..Len(P1.batch) :
      /\ ResultsOf(P1, P1.batch[k]) # {}
      /\ (\E j \in Positions(P1) :
            P1.trace[j] = Ev("getEmailTemplate", P1.batch[k], FALSE))
           => \A j \in ResultsOf(P1, P1.batch[k]) : P1.results[j].status = "failed"

SendsOk(r) == {k \in SendsIn(r) : r.trace[k].ok}
\* the calls made for a notification: everything but the fetch
Calls(r) == {k \in Positions(r) : r.trace[k].op # "fetch"}

\* C5: after an answer of sendEmail the status written is sent (with sent_at)
\* exactly when the answer is a success; otherwise it is failed with the error
\* text, the result carries that error, and the next notification is processed.
C5_StatusFollowsSend ==
  /\ (P1.pc = "write" /\ P1.write.cont = "delay") =>
        /\ P1.write.data.status = "sent" <=> P1.emailResult.success
        /\ P1.emailResult.success =>
              P1.write.data.sent_at # None /\ P1.write.result = "sent"
        /\ ~P1.emailResult.success =>
              /\ P1.write.data.status = "failed"
              /\ P1.write.data.error_message = P1.emailResult.error
              /\ P1.write.result = "failed"
              /\ P1.write.error = P1.emailResult.error
  /\ \A j \in SendsIn(P1) : \A k \in Positions(P1) :
        (k > j /\ P1.trace[k] = Ev("updateNotificationStatus", P1.trace[j].id, TRUE)) =>
          LET row == notifications[P1.trace[j].id]
          IN /\ row.status = "sent" <=> P1.trace[j].ok
             /\ P1.trace[j].ok => row.sent_at # None
             /\ ~P1.trace[j].ok => row.status = "failed" /\ row.error_message # ""
  /\ P1.pc = "done" =>
        \A j \in SendsIn(P1) :
          LET k == IndexOf(P1, P1.trace[j].id)
          IN k < Len(P1.batch) =>
               \E c \in Positions(P1) : c > j /\ P1.trace[c].id = P1.batch[k + 1]

\* a failed send on the first notification, then a successful one on the second
C5_Witness ==
  /\ P1.pc = "done" /\ Len(P1.batch) = 2
  /\ \E a, b \in SendsIn(P1) : a < b /\ ~P1.trace[a].ok /\ P1.trace[b].ok
  /\ notifications[P1.batch[1]].status = "failed"
  /\ notifications[P1.batch[2]].status = "sent"

\* C6: in every summary returned, successRate is 100 when processed = 0 and
\* sent/processed x 100 otherwise.
C6_SuccessRate ==
  (P1.pc = "done" /\ P1.response.data) =>
    LET rate == P1.response.successRate
    IN IF P1.response.processed = 0
       THEN rate.num = 100 * rate.den
       ELSE rate.num * P1.response.processed = P1.response.sent * 100 * rate.den

\* C7: a batch of N that runs to completion reports processed = N, sent = the
\* successful sends, failed = N - sent and one result per fetched notification,
\* in order; skipped and template-less notifications count in failed.
C7_SummaryCounts ==
  (P1.pc = "done" /\ P1.response.code = 200) =>
    LET resp == P1.response
    IN /\ resp.processed = Len(P1.batch)
       /\ resp.sent = Cardinality(SendsOk(P1))
       /\ resp.failed = resp.processed - resp.sent
       /\ Len(resp.details) = Len(P1.batch)
       /\ \A k \in 1..Len(P1.batch) :
            /\ resp.details[k].notificationId = P1.batch[k]
            /\ resp.details[k].status = "sent" <=>
                 \E j \in SendsOk(P1) : P1.trace[j].id = P1.batch[k]
       /\ resp.failed = Cardinality({k \in 1..Len(resp.details) :
                                       resp.details[k].status # "sent"})

\* a completed batch of two: one skipped for its completed task, one sent
C7_Witness ==
  /\ P1.pc = "done" /\ P1.response.code = 200 /\ P1.response.processed = 2
  /\ \E k \in 1..2 : P1.response.details[k].status = "skipped_completed"
  /\ P1.response.sent = 1

\* C8: when the initial fetch fails the handler answers 500 and does nothing
\* else: no send, no status write, the notifications unchanged.
C8_FetchFailureTouchesNothing ==
  [][(P1'.trace # <<>> /\ ~P1'.trace[1].ok) =>
       /\ P1'.pc = "done"
       /\ P1'.response.code = 500
       /\ Len(P1'.trace) = 1
       /\ P1'.results = <<>>
       /\ notifications' = notifications
       /\ sends' = sends]_vars

\* the fetch failed while a notification was waiting to be sent
C8_Witness ==
  /\ P1.pc = "done" /\ P1.trace # <<>> /\ ~P1.trace[1].ok
  /\ \E id \in Ids : Eligible(notifications[id], nowUTC(now, sysOffset))

\* C9: between two consecutive sends of a batch the delay is applied, and no
\* delay is applied after the last notification.
C9_DelayBetweenSends ==
  /\ \A a, b \in SendsIn(P1) :
        a < b => \E c \in Positions(P1) : a < c /\ c < b /\ P1.trace[c].op = "delay"
  /\ \A c \in Positions(P1) :
        P1.trace[c].op = "delay" => P1.trace[c].id # P1.batch[Len(P1.batch)]
  /\ P1.pc = "delay" => P1.i < Len(P1.batch)

\* two sends in one batch, the batch finished
C9_Witness ==
  P1.pc = "done" /\ Cardinality(SendsIn(P1)) = 2

\* C10: notifications are handled one at a time in fetch order (ascending
\* scheduled_at): every call made for a notification comes after the status
\* write of the one before it.
C10_OneAtATimeInOrder ==
  /\ \A a, b \in 1..Len(P1.batch) :
        a < b => notifications[P1.batch[a]].scheduled_at
                   <= notifications[P1.batch[b]].scheduled_at
  /\ \A a, b \in Calls(P1) :
        a < b => IndexOf(P1, P1.trace[a].id) <= IndexOf(P1, P1.trace[b].id)
  /\ \A b \in Calls(P1) :
        LET k == IndexOf(P1, P1.trace[b].id)
        IN /\ k <= P1.i
           /\ k > 1 => \E c \in Calls(P1) :
                          /\ c < b
                          /\ P1.trace[c].op = "updateNotificationStatus"
                          /\ P1.trace[c].id = P1.batch[k - 1]

\* the second notification of a batch, scheduled later than the first, is being sent
C10_Witness ==
  /\ P1.pc = "write" /\ P1.i = 2
  /\ notifications[P1.batch[1]].scheduled_at < notifications[P1.batch[2]].scheduled_at
  /\ \E j \in SendsIn(P1) : P1.trace[j].id = P1.batch[2]

\* C11: a fetched batch holds at most 50 notifications, in ascending
\* scheduled_at order, each of them due: its scheduled_at is at or before the
\* current instant, so nothing is selected or sent before its scheduled_at.
C11_FetchOnlyDue ==
  P1.pc # "idle" =>
    /\ Len(P1.batch) <= FetchLimit
    /\ \A k \in 1..Len(P1.batch) :
          /\ notifications[P1.batch[k]].scheduled_at <= now
          /\ k > 1 => notifications[P1.batch[k - 1]].scheduled_at
                         <= notifications[P1.batch[k]].scheduled_at

\* the notification in hand and its age at the current instant
CurRow == notifications[Cur("p1")]
CurAge == now - CurRow.scheduled_at
\* the variable map of the notification in hand has been built
VariablesBuilt == P1.pc \in {"overdueTemplate", "send"}

\* C12: for a task_reminder notification whose task is not completed the
\* effective template is task_overdue exactly when now - scheduled_at >= 5 days
\* (inclusive), and then days_overdue = max(1, whole days elapsed); below
\* 5 days the effective template stays task_reminder.
C12_Escalation ==
  (VariablesBuilt /\ CurRow.template_key = "task_reminder") =>
    /\ P1.effective = "task_overdue" <=> CurAge >= FiveDays
    /\ P1.effective = "task_overdue" =>
          P1.daysOverdueStr = Some(Max(1, CurAge \div DayLen))
    /\ CurAge < FiveDays => P1.effective = "task_reminder"

\* a reminder exactly five days old with an open task escalated, days_overdue 5
C12_Witness ==
  /\ VariablesBuilt /\ CurRow.template_key = "task_reminder"
  /\ CurAge = FiveDays
  /\ P1.effective = "task_overdue" /\ P1.daysOverdueStr = Some(5)

\* C13: when the escalation rule does not fire (template_key is not
\* task_reminder, or the task is completed, or the age is below 5 days) the
\* effective template is the original template_key and days_overdue is unset.
C13_NoEscalationNoDaysOverdue ==
  /\ (VariablesBuilt /\ (CurRow.template_key # "task_reminder" \/ CurAge < FiveDays)) =>
        P1.effective = CurRow.template_key /\ P1.daysOverdueStr = None
  /\ (P1.pc = "write" /\ P1.write.result = "skipped_completed") =>
        P1.effective = CurRow.template_key /\ P1.daysOverdueStr = None

\* the step is a status write of the notification in hand that the store rejects
WriteFails ==
  /\ P1.pc = "write"
  /\ Len(P1'.trace) = Len(P1.trace) + 1
  /\ P1'.trace[Len(P1'.trace)] = Ev("updateNotificationStatus", Cur("p1"), FALSE)

\* C14: when the write of a notification's status fails, nothing is raised:
\* the result and the counters determined for the notification are recorded
\* as they were, and the loop goes on to the next notification (or to the
\* success summary after the last one).
C14_WriteFailureIsSilent ==
  [][WriteFails =>
       /\ P1'.results = Append(P1.results,
                               [notificationId |-> Cur("p1"), status |-> P1.write.result,
                                emailId |-> P1.write.emailId, error |-> P1.write.error])
       /\ P1'.sentCount = P1.sentCount + (IF P1.write.result = "sent" THEN 1 ELSE 0)
       /\ P1'.failedCount = P1.failedCount + (IF P1.write.result = "sent" THEN 0 ELSE 1)
       /\ IF P1.i < Len(P1.batch)
          THEN \/ P1'.pc = "delay" /\ P1'.i = P1.i
               \/ P1'.pc = "template" /\ P1'.i = P1.i + 1
          ELSE P1'.pc = "done" /\ P1'.response.code = 200]_vars

\* the write for the first notification, sent, was rejected; the second was
\* processed and the batch answered 200 with the first reported as sent
C14_Witness ==
  /\ P1.pc = "done" /\ P1.response.code = 200 /\ Len(P1.batch) = 2
  /\ \E k \in Positions(P1) : P1.trace[k] = Ev("updateNotificationStatus", P1.batch[1], FALSE)
  /\ \E k \in Positions(P1) : P1.trace[k].op = "sendEmail" /\ P1.trace[k].id = P1.batch[2]
  /\ P1.response.details[1].status = "sent"

\* the step is a successful fetch that starts an invocation
FetchSucceeds == P1.pc = "idle" /\ P1'.pc # "idle" /\ P1'.trace[1].ok
\* the notifications of the batch fetched by the step
Fetched1 == {P1'.batch[k] : k \in 1..Len(P1'.batch)}

WritesIn(r) == {k \in Positions(r) : r.trace[k].op = "updateNotificationStatus"}

\* C16: a second invocation made right after the first has returned (no time
\* has passed, no store operation has failed, so every write of the first
\* persisted) invokes no send and writes no status.
C16_SecondRunDoesNothing ==
  (runs = 2 /\ faults = 0 /\ now = Epoch0 /\ P1.pc # "idle") =>
    SendsIn(P1) = {} /\ WritesIn(P1) = {}

\* C17: between its fetch and its send an invocation neither locks nor
\* re-reads the row: whatever another invocation has done to the notification
\* since, an invocation that has reached the send of a fetched notification
\* sends it. Two overlapping invocations can so both send the same one.
C17_SendNotGuardedByRow ==
  \A p \in Procs :
    inv[p].pc = "send" =>
      /\ \E k \in 1..Len(inv[p].batch) : inv[p].batch[k] = Cur(p)
      /\ ENABLED SendEmail(p)

\* both invocations have sent the same notification, already marked sent by one
C17_Witness ==
  \E id \in Ids :
    /\ \A p \in Procs : \E j \in SendsIn(inv[p]) : inv[p].trace[j].id = id
    /\ sends[id] = 2
    /\ notifications[id].status = "sent"

\* the step resolves the task of the notification in hand and a lookup fails
ResolutionFails ==
  /\ P1.pc = "context"
  /\ Len(P1'.trace) = Len(P1.trace) + 1
  /\ P1'.trace[Len(P1'.trace)] = Ev("getTaskContext", Cur("p1"), FALSE)

\* the step finds the active task_overdue template of an escalated notification
OverdueTemplateFound ==
  /\ P1.pc = "overdueTemplate"
  /\ Len(P1'.trace) = Len(P1.trace) + 1
  /\ P1'.trace[Len(P1'.trace)] = Ev("getEmailTemplate", Cur("p1"), TRUE)

BlockResolved(seg, variables) ==
  IF ~seg.block THEN seg.inner
  ELSE IF variables[seg.name] # None /\ variables[seg.name] # Some(<<>>)
       THEN seg.inner ELSE <<>>
BlocksResolved(segs, variables) ==
  Flatten([k \in 1..Len(segs) |-> BlockResolved(segs[k], variables)])
BlocksIn(segs) == {k \in 1..Len(segs) : segs[k].block}

\* C19: on a template with any number of independent {{#if x}} blocks,
\* renderTemplate removes each block whose variable is absent or empty and
\* keeps the inner text of each block whose variable is present; no
\* {{#if}} or {{/if}} marker is left in the output.
C19_IndependentBlocks ==
  render.pc = "done" =>
    /\ render.out = substituteFrom(BlocksResolved(render.segments, render.variables),
                                   render.variables, 1)
    /\ \A k \in 1..Len(render.out) : render.out[k].k \notin {"if", "endif"}

\* three blocks rendered: one kept, one on an empty variable and so removed
C19_Witness ==
  /\ render.pc = "done"
  /\ Cardinality(BlocksIn(render.segments)) = 3
  /\ render.variables["x"] = Some(<<Text("a")>>) /\ render.variables["y"] = Some(<<>>)
  /\ \E a, b \in BlocksIn(render.segments) :
       /\ render.segments[a].name = "x" /\ render.segments[a].inner # <<>>
       /\ render.segments[b].name = "y" /\ render.segments[b].inner # <<>>
  /\ render.out # <<>>

\* the string form of the value of a placeholder, the placeholder itself when
\* its variable is not supplied
Literal(tok, variables) ==
  IF tok.k = "var" /\ variables[tok.v] # None THEN variables[tok.v][1] ELSE <<tok>>
LiteralRendering(tpl, variables) ==
  Flatten([k \in 1..Len(tpl) |-> Literal(tpl[k], variables)])

\* C20: on a template of texts and placeholders, renderTemplate leaves every
\* {{name}} whose variable is not supplied untouched and replaces every
\* {{name}} whose variable is supplied with the string form of the value.
C20_PlaceholdersLiteral ==
  (render.pc = "done" /\ BlocksIn(render.segments) = {}) =>
    render.out = LiteralRendering(TemplateOf(render.segments), render.variables)

\* C21: with the store never failing and the scheduler calling again and
\* again, every notification that is pending and due eventually leaves the
\* pending status.
C21_EventuallyLeavesPending ==
  \A id \in Ids :
    (notifications[id].status = "pending" /\ notifications[id].scheduled_at <= now)
      ~> (notifications[id].status # "pending")

\* C22: the send capability is invoked at most once per notification: once
\* at most within a batch, and over successive invocations a notification is
\* sent again only while no status write for it has ever persisted.
C22_SentAtMostOnce ==
  [][/\ \A id \in Ids :
          sends'[id] > sends[id] =>
            /\ sends'[id] = sends[id] + 1
            /\ \A j \in SendsIn(P1) : P1.trace[j].id # id
            /\ notifications[id].status = "pending"
            /\ notifications[id].updated_at = None
     /\ faults' = 0 => \A id \in Ids : sends'[id] <= 1]_vars

\* the second invocation sends one notification and leaves alone the one the
\* first invocation sent and marked
C22_Witness ==
  /\ runs = 2 /\ P1.pc = "done" /\ faults = 0
  /\ \E a, b \in Ids :
       /\ a # b /\ sends[a] = 1 /\ sends[b] = 1
       /\ notifications[a].status = "sent" /\ notifications[a].scheduled_at <= now
       /\ P1.batch = <<b>>
       /\ \E j \in SendsIn(P1) : P1.trace[j].id = b

\* invocation p's step is a status write that reaches the store
WritePersists(p) ==
  /\ inv[p].pc = "write"
  /\ Len(inv'[p].trace) = Len(inv[p].trace) + 1
  /\ inv'[p].trace[Len(inv'[p].trace)] = Ev("updateNotificationStatus", Cur(p), TRUE)

\* C23: updateNotificationStatus writes the new status whatever the stored
\* one is: the row takes the status the invocation decided, also when another
\* invocation has already marked it. With overlapping invocations a
\* notification marked sent can so be overwritten to failed.
C23_WriteIgnoresStoredStatus ==
  [][\A p \in Procs :
       WritePersists(p) =>
         /\ notifications'[Cur(p)].status = inv[p].write.data.status
         /\ notifications'[Cur(p)].updated_at = inv[p].write.data.updated_at]_vars

\* a notification that was marked sent (its sent_at is set) now stored as failed
C23_Witness ==
  \E id \in Ids :
    /\ notifications[id].status = "failed"
    /\ notifications[id].sent_at # None
    /\ sends[id] = 2

\* the row is completed by its own columns
Direct(task) == task.completed = TRUE \/ task.status = "completed"
\* the resolution ran with every lookup answering
Resolved(table) ==
  resolve.pc = "done" /\ resolve.task.table = table /\ resolve.lookupErr = "none"
CallsTo(table) == {k \in 1..Len(resolve.ctx.calls) : resolve.ctx.calls[k] = table}

\* C24: a todos task is completed iff its completed flag is true or its
\* status is 'completed'; a user_tasks task is completed iff that holds or
\* the completions log has a record for it; the log is queried only when the
\* row is not directly completed, and completedAt is then the completed_at of
\* its earliest record.
C24_CompletionRule ==
  /\ Resolved("todos") =>
        /\ resolve.ctx.isCompleted <=> Direct(resolve.task)
        /\ resolve.ctx.completedAt = resolve.task.completed_at
        /\ CallsTo("task_completions") = {}
  /\ Resolved("user_tasks") =>
        /\ resolve.ctx.isCompleted <=> (Direct(resolve.task) \/ resolve.task.log # {})
        /\ CallsTo("task_completions") # {} <=> ~Direct(resolve.task)
        /\ (~Direct(resolve.task) /\ resolve.task.log # {}) =>
              /\ resolve.ctx.completedAt # None
              /\ resolve.ctx.completedAt[1] \in resolve.task.log
              /\ \A x \in resolve.task.log : resolve.ctx.completedAt[1] <= x

\* a user_tasks row not completed by its columns, completed by its log
C24_Witness ==
  /\ Resolved("user_tasks") /\ ~Direct(resolve.task) /\ resolve.task.log = {2, 3}
  /\ resolve.ctx.isCompleted /\ resolve.ctx.completedAt = Some(2)

\* the plant name is being probed for: user_tasks row without plant_name,
\* plant id known
Probing ==
  /\ Resolved("user_tasks")
  /\ resolve.row.plant_name = None /\ resolve.row.plantIdKnown
IsPlantTable(c) == c \in PlantTableSet
\* the candidates that hold a record with a name
Hits == {k \in 1..Len(PlantTables) :
           resolve.answers[PlantTables[k]] \in {"named", "namedNoTenda"}}
FirstHit == CHOOSE h \in Hits : \A k \in Hits : h <= k

\* C25: the probing queries user_plants, plants, plantas in that order up to
\* the first that holds a name and no further; an error or an exception of a
\* candidate is a miss; the garden name comes only from the tenda of the
\* plant record that gave the name.
C25_PlantProbing ==
  Probing =>
    IF Hits = {}
    THEN /\ resolve.ctx.plantName = None /\ resolve.ctx.gardenName = None
         /\ SelectSeq(resolve.ctx.calls, IsPlantTable) = PlantTables
         /\ CallsTo("tendas") = {}
    ELSE /\ resolve.ctx.plantName = Some(PlantTables[FirstHit])
         /\ SelectSeq(resolve.ctx.calls, IsPlantTable) = SubSeq(PlantTables, 1, FirstHit)
         /\ resolve.ctx.gardenName \in {None, Some(PlantTables[FirstHit])}
         /\ resolve.ctx.gardenName # None <=>
               /\ resolve.answers[PlantTables[FirstHit]] = "named"
               /\ resolve.tenda = "named"
         /\ Cardinality(CallsTo("tendas")) <= 1

\* user_plants erred, plants gave the name and the garden, plantas also has
\* a name and was not asked
C25_Witness ==
  /\ Probing
  /\ resolve.answers["user_plants"] \in {"error", "throw"}
  /\ resolve.answers["plants"] = "named" /\ resolve.answers["plantas"] = "named"
  /\ resolve.ctx.plantName = Some("plants") /\ resolve.ctx.gardenName = Some("plants")
  /\ CallsTo("plantas") = {}

\* the TaskContext value when present, the pre-stored value otherwise
WithFallback(ctxValue, stored) == IF ctxValue # None THEN ctxValue ELSE stored

\* C26: plant_name, task_category and garden_name of the variable map are
\* the TaskContext value when present and the value pre-stored in
\* template_variables otherwise.
C26_StoredFallback ==
  resolve.pc = "done" =>
    /\ resolve.variables.plant_name =
         WithFallback(resolve.ctx.plantName, resolve.template_variables.plant_name)
    /\ resolve.variables.task_category =
         WithFallback(resolve.ctx.taskCategory, resolve.template_variables.task_category)
    /\ resolve.variables.garden_name =
         WithFallback(resolve.ctx.gardenName, resolve.template_variables.garden_name)
\* what a template with properly nested blocks stands for: the pieces that
\* are no marker and whose enclosing blocks all have their variable present
Opens(tpl, from, to) == Cardinality({h \in from..to : tpl[h].k = "if"})
Closes(tpl, from, to) == Cardinality({h \in from..to : tpl[h].k = "endif"})
Encloses(tpl, i, k) ==
  /\ i < k /\ tpl[i].k = "if"
  /\ \A m \in (i + 1)..k : Closes(tpl, i + 1, m) <= Opens(tpl, i + 1, m)
Present(variables, n) == variables[n] # None /\ variables[n] # Some(<<>>)
Kept(tpl, variables, k) ==
  /\ tpl[k].k \notin {"if", "endif"}
  /\ \A i \in 1..(k - 1) : Encloses(tpl, i, k) => Present(variables, tpl[i].v)
NestedResolved(tpl, variables) ==
  Flatten([k \in 1..Len(tpl) |-> IF Kept(tpl, variables, k) THEN <<tpl[k]>> ELSE <<>>])

\* C27: on a template with one {{#if b}} block inside an {{#if a}} block,
\* renderTemplate keeps the outer inner text iff a is present, keeps the
\* nested inner text iff a and b are both present, and leaves no {{#if}} or
\* {{/if}} marker in the output, whatever a and b are.
C27_SimpleNesting ==
  render.pc = "done" =>
    /\ render.out = substituteFrom(NestedResolved(TemplateOf(render.segments),
                                                  render.variables),
                                   render.variables, 1)
    /\ \A k \in 1..Len(render.out) : render.out[k].k \notin {"if", "endif"}

\* an iteration of the conditional loop
Iteration == render.pc = "loop" /\ render'.pc = "loop" /\ render'.out # render.out
\* the whole markers of a string: its {{#if n}} and its {{/if}}
OpensOf(out, n) == Cardinality({k \in 1..Len(out) : out[k] = IfOpen(n)})
ClosesOf(out) == Cardinality({k \in 1..Len(out) : out[k] = IfClose})

\* C28 as stated: each iteration of the conditional loop removes one
\* {{#if}}...{{/if}} marker pair and introduces no new marker: a {{/if}}
\* less, an {{#if n}} less for some n, and of no n more than before.
C28_RemovesOnePair ==
  [][Iteration =>
       /\ ClosesOf(render'.out) < ClosesOf(render.out)
       /\ \E n \in VarNames : OpensOf(render'.out, n) < OpensOf(render.out, n)
       /\ \A n \in VarNames : OpensOf(render'.out, n) <= OpensOf(render.out, n)]_vars

\* C28, amended: the conditional loop terminates for every template string
\* and every variable map, because each iteration leaves a strictly shorter
\* string: the matched block gives way to its inner text or to nothing.
C28_LoopShortens ==
  [][/\ render.pc = "loop" /\ IfStarts(render.out) # {} => render'.pc = "loop"
     /\ Iteration => Size(render'.out) < Size(render.out)
     /\ render'.pc = "done" => IfStarts(render.out) = {}]_vars

\* the loop has gone round on a string with the halves of a marker around a
\* block, and has come to its end
C28_Witness ==
  /\ render.pc = "done"
  /\ LET t == TemplateOf(render.segments)
     IN /\ \E k \in 1..(Len(t) - 1) : t[k] = IfHead /\ t[k + 1].k = "if"
        /\ Size(render.out) < Size(t)
        /\ IfStarts(t) # {}
\* the invocations whose next step is a call of updateNotificationStatus
Writing(id) == {p \in Procs : inv[p].pc \in {"write", "pvWrite"} /\ Cur(p) = id}
Changed == {id \in Ids : notifications'[id] # notifications[id]}

\* C29: every update of updateNotificationStatus sets status and updated_at
\* and touches only the row of the given id; sent_at is set only with the
\* status sent, error_message only with the status failed and a message
\* supplied; every other column and every other notification is unchanged.
C29_UpdateFrame ==
  [][/\ Cardinality(Changed) <= 1
     /\ \A id \in Changed :
          \E p \in Writing(id) :
            LET data == inv[p].write.data
                old == notifications[id]
                new == notifications'[id]
            IN /\ inv'[p].trace[Len(inv'[p].trace)] = Ev("updateNotificationStatus", id, TRUE)
               /\ new.status = data.status
               /\ new.updated_at = data.updated_at /\ new.updated_at # None
               /\ new.scheduled_at = old.scheduled_at
               /\ new.template_key = old.template_key
               /\ new.sent_at # old.sent_at => data.status = "sent"
               /\ new.error_message # old.error_message =>
                    data.status = "failed" /\ new.error_message = data.error_message
     /\ \A id \in Ids : \A p \in Writing(id) :
          (inv'[p] # inv[p] /\ inv[p].write.data.status = "sent")
            => inv[p].write.data.error_message = ""]_vars

\* one notification stored as sent with its sent_at and no error message,
\* the other as failed with its error message and no sent_at
C29_Witness ==
  \E a, b \in Ids :
    /\ notifications[a].status = "sent" /\ notifications[a].sent_at # None
    /\ notifications[a].error_message = ""
    /\ notifications[b].status = "failed" /\ notifications[b].sent_at = None
    /\ notifications[b].error_message # ""
\* a step of an invocation of processPendingNotifications
PreviewStepOf(p) ==
  inv'[p] # inv[p] /\ (inv[p].handler = "preview" \/ inv'[p].handler = "preview")
\* when the task of a notification was completed, as the store has it
CompletedAtOf(id) == getTaskContext(tasks[id], "none").completedAt
Prepared(r) == {r.results[k].notificationId : k \in 1..Len(r.results)}

\* C30: processPendingNotifications never invokes the send capability and
\* never writes the status sent: its only store write marks failed, with the
\* reason completed_before_schedule, a notification whose task was
\* completed at or before its scheduled_at; every notification it returns
\* in emailData is still pending in the store afterwards.
C30_PreviewNeverSends ==
  [][\A p \in Procs :
       PreviewStepOf(p) =>
         /\ sends' = sends
         /\ \A id \in Ids :
              notifications'[id] # notifications[id] =>
                /\ inv[p].pc = "pvWrite" /\ id = Cur(p)
                /\ notifications'[id].status = "failed"
                /\ notifications'[id].error_message = "completed_before_schedule"
                /\ notifications'[id].sent_at = notifications[id].sent_at
                /\ CompletedAtOf(id) # None
                /\ CompletedAtOf(id)[1] <= notifications[id].scheduled_at
         /\ (inv'[p].pc = "done" /\ inv'[p].response.code = 200) =>
              /\ inv'[p].response.details = inv'[p].results
              /\ \A id \in Prepared(inv'[p]) : notifications'[id].status = "pending"]_vars

\* a preview has replied: one notification prepared and still pending, the
\* other marked failed as completed before its schedule, nothing sent, and
\* the task of the prepared one completed after its schedule
C30_Witness ==
  /\ P1.handler = "preview" /\ P1.pc = "done"
  /\ \E a, b \in Ids :
       /\ a \in Prepared(P1) /\ notifications[a].status = "pending"
       /\ CompletedAtOf(a) # None /\ CompletedAtOf(a)[1] > notifications[a].scheduled_at
       /\ notifications[b].status = "failed"
       /\ notifications[b].error_message = "completed_before_schedule"
  /\ \A id \in Ids : sends[id] = 0
====
